---- MODULE Spec2Model ----
(***************************************************************************)
(* Pausarr session monitor (src/app/monitor.py) together with the parts of *)
(* its collaborators it calls: the config provider (src/app/config.py),    *)
(* the Jellyfin session source (src/app/jellyfin.py) and the Docker        *)
(* workload controller (src/app/docker_manager.py).                        *)
(*                                                                         *)
(* Threads: the APScheduler pool workers that run _check_sessions, and the *)
(* web threads that call start/stop/restart/force_pause/force_unpause and  *)
(* read the status.  Every thread has a program counter pc[t] and locals   *)
(* loc[t]; SessionMonitor._lock is the variable lock.                      *)
(***************************************************************************)
EXTENDS Integers, Sequences, FiniteSets, TLC

VARIABLES
    cfgEnabled,           \* config["enabled"]
    containers,           \* config["containers"]: sequence of [name, enabled] in dict order
    scheduler,            \* self._scheduler: "none" | "stopped" | "running"
    initialPending,       \* the one-shot "initial_check" job waits to be run
    status,               \* self._status (MonitorStatus)
    prev_sessions_active, \* self._prev_sessions_active
    lock,                 \* holder of self._lock, or NoThread
    log,                  \* ghost: every entry ever handed to _add_history, in order
    pc,                   \* per thread: position in its current operation
    loc,                  \* per thread: locals of its current operation
    ret,                  \* the return made by the step just taken, NoRet if none
    lastCycle,            \* ghost: how the last check cycle that took the lock ended
    ops                   \* ghost: number of operations begun since the initial state

vars == <<cfgEnabled, containers, scheduler, initialPending, status,
          prev_sessions_active, lock, log, pc, loc, ret, lastCycle, ops>>

----------------------------------------------------------------------------
(* Bounds and program constants *)

MaxOps == 3

MAX_HISTORY == 50

SNAPSHOT_HISTORY == 20

Workers == {"w1"}

Callers == {"c1"}

Threads == Workers \cup Callers

NoThread == "nobody"

Names == {"sonarr", "radarr"}

----------------------------------------------------------------------------
(* Pure helpers *)

\* datetime.now(): a clock that has advanced whenever an operation has begun
\* or an entry has been logged since the last reading
now == ops + Len(log)

Isoformat(t) == [iso |-> t]

\* Python's seq[-n:]
LastN(s, n) == IF Len(s) <= n THEN s ELSE SubSeq(s, Len(s) - n + 1, Len(s))

Entry(t, action, details) ==
    [timestamp |-> Isoformat(t), action |-> action, details |-> details]

\* Mutant of AddHistory: the cap keeps the oldest entries (history[:MAX])
AddHistory_KeepsOldest(h, t, action, details) ==
    LET appended == Append(h, Entry(t, action, details))
    IN  IF Len(appended) > MAX_HISTORY THEN SubSeq(appended, 1, MAX_HISTORY)
        ELSE appended

\* SessionMonitor._add_history applied to a history list at clock value t
AddHistory(h, t, action, details) ==
    LET appended == Append(h, Entry(t, action, details))
    IN  IF Len(appended) > MAX_HISTORY THEN LastN(appended, MAX_HISTORY) ELSE appended

\* Mutant of ToDictHistory: the first entries instead of the last (history[:20])
ToDictHistory_First(h) ==
    IF Len(h) <= SNAPSHOT_HISTORY THEN h ELSE SubSeq(h, 1, SNAPSHOT_HISTORY)

\* MonitorStatus.to_dict: the history it exposes
ToDictHistory(h) == LastN(h, SNAPSHOT_HISTORY)

\* Config.get_enabled_containers
RECURSIVE EnabledOf(_)
EnabledOf(cs) ==
    IF cs = <<>> THEN <<>>
    ELSE IF Head(cs).enabled THEN <<Head(cs).name>> \o EnabledOf(Tail(cs))
         ELSE EnabledOf(Tail(cs))

get_enabled_containers == EnabledOf(containers)

\* JellyfinClient.has_active_sessions on a given server response:
\* <<has_sessions, error>>
Responses == {"active", "idle", "conn_error"}

has_active_sessions(resp) ==
    CASE resp = "active"     -> <<TRUE, "None">>
      [] resp = "idle"       -> <<FALSE, "None">>
      [] resp = "http_error" -> <<FALSE, "API error: HTTP 500">>
      [] resp = "conn_error" -> <<FALSE, "Cannot connect to Jellyfin">>
      [] resp = "timeout"    -> <<FALSE, "Connection timeout">>

\* What the Docker daemon shows for a container when it is asked.
ContainerConds == {"running", "missing", "unreachable"}

Raised == <<"raised">>

\* DockerManager.pause_container: <<success, message>>, or Raised when the
\* exception is neither NotFound nor APIError
pause_container(name, cond) ==
    CASE cond = "paused"      -> <<TRUE, <<name, "is already paused">> >>
      [] cond = "exited"      -> <<FALSE, <<name, "is not running">> >>
      [] cond = "running"     -> <<TRUE, <<"Paused", name>> >>
      [] cond = "missing"     -> <<FALSE, <<"Container not found", name>> >>
      [] cond = "api_error"   -> <<FALSE, <<"Failed to pause", name>> >>
      [] cond = "unreachable" -> Raised

\* DockerManager.unpause_container
unpause_container(name, cond) ==
    CASE cond = "running"     -> <<TRUE, <<name, "is already running">> >>
      [] cond = "exited"      -> <<FALSE, <<name, "is not paused">> >>
      [] cond = "paused"      -> <<TRUE, <<"Unpaused", name>> >>
      [] cond = "missing"     -> <<FALSE, <<"Container not found", name>> >>
      [] cond = "api_error"   -> <<FALSE, <<"Failed to unpause", name>> >>
      [] cond = "unreachable" -> Raised

----------------------------------------------------------------------------
(* Initial states: SessionMonitor.__init__ and MonitorStatus defaults, as   *)
(* main() leaves them when the web server starts serving: main.py 280-283   *)
(* calls monitor.start() only if the API key is configured.                 *)

\* seen (ghost, status reads only): the values self._status had when the
\* accessor returned it and whenever the lock was released since then.
\* late (ghost, check cycles only): the job was dispatched while a stop() was
\* already under way.
NoLocals ==
    [op |-> "none", kind |-> "none", has |-> FALSE, enabled |-> <<>>,
     todo |-> <<>>, results |-> <<>>, snap |-> <<>>, seen |-> <<>>,
     late |-> FALSE]

NoRet == [who |-> NoThread, op |-> "none", value |-> "None", line |-> 0]

InitStatus ==
    [running |-> FALSE, last_check |-> <<>>, last_action |-> "None",
     sessions_active |-> FALSE, containers_paused |-> FALSE,
     error |-> "None", history |-> <<>>]

StartedEntry(t) == Entry(t, "started", "Monitor started")

Constructed ==
    /\ scheduler = "none"
    /\ initialPending = FALSE
    /\ status = InitStatus
    /\ log = <<>>

StartedByMain ==
    /\ scheduler = "running"
    /\ initialPending = TRUE
    /\ status = [InitStatus EXCEPT !.running = TRUE,
                                   !.history = <<StartedEntry(0)>>]
    /\ log = <<StartedEntry(0)>>

InitRest ==
    /\ cfgEnabled = TRUE
    /\ containers = <<[name |-> "sonarr", enabled |-> TRUE],
                      [name |-> "radarr", enabled |-> TRUE]>>
    /\ prev_sessions_active = FALSE
    /\ lock = NoThread
    /\ pc = [t \in Threads |-> "idle"]
    /\ loc = [t \in Threads |-> NoLocals]
    /\ ret = NoRet
    /\ lastCycle = "none"
    /\ ops = 0

Init == (Constructed \/ StartedByMain) /\ InitRest

----------------------------------------------------------------------------
(* Config provider operations invoked by the web layer *)

HasContainer(name) == \E i \in 1..Len(containers) : containers[i].name = name

monitorVars == <<scheduler, initialPending, status, prev_sessions_active, lock,
                 log, pc, loc, lastCycle, ops>>

\* Config.set("enabled", b): api_enable / api_disable
SetEnabled(b) ==
    /\ cfgEnabled # b
    /\ cfgEnabled' = b
    /\ ret' = NoRet
    /\ UNCHANGED <<containers, monitorVars>>

\* Config.set_container_enabled(name, not current): api_toggle_container
ToggleContainer(name) ==
    /\ HasContainer(name)
    /\ containers' = [i \in 1..Len(containers) |->
                        IF containers[i].name = name
                        THEN [containers[i] EXCEPT !.enabled = ~@]
                        ELSE containers[i]]
    /\ ret' = NoRet
    /\ UNCHANGED <<cfgEnabled, monitorVars>>

----------------------------------------------------------------------------
(* Shared pieces of the monitor operations *)

CycleOps == {"initial", "interval", "orphan"}

Return(t, value, line) ==
    [who |-> t, op |-> loc[t].op, value |-> value, line |-> line]

\* ghost: the lock is released with self._status holding st
Observe(l, st) ==
    [v \in Threads |->
        IF l[v].op = "status" /\ l[v].seen[Len(l[v].seen)] # st
        THEN [l[v] EXCEPT !.seen = Append(@, st)] ELSE l[v]]

\* Mutant of Finish: the operation ends without releasing the lock
Finish_KeepsLock(t, value, line) ==
    /\ lock' = lock
    /\ pc' = [pc EXCEPT ![t] = "idle"]
    /\ loc' = Observe([loc EXCEPT ![t] = NoLocals], status')
    /\ ret' = Return(t, value, line)

\* Leaving the "with self._lock:" block and the operation
Finish(t, value, line) ==
    /\ lock' = NoThread
    /\ pc' = [pc EXCEPT ![t] = "idle"]
    /\ loc' = Observe([loc EXCEPT ![t] = NoLocals], status')
    /\ ret' = Return(t, value, line)

CycleDone(outcome) == lastCycle' = outcome

ResultAction(kind, r) == IF r.ok THEN kind ELSE kind \o "_failed"

\* The loop "for name, (success, message) in results.items(): _add_history"
RECURSIVE AddResults(_, _, _, _)
AddResults(h, t, kind, results) ==
    IF results = <<>> THEN h
    ELSE AddResults(AddHistory(h, t, ResultAction(kind, Head(results)),
                               Head(results).msg),
                    t + 1, kind, Tail(results))

\* ghost counterpart of AddResults for the complete log
ResultEntries(t, kind, results) ==
    [i \in 1..Len(results) |->
        Entry(t + i - 1, ResultAction(kind, results[i]), results[i].msg)]

----------------------------------------------------------------------------
(* SessionMonitor._check_sessions, run by a scheduler pool thread *)

cfg == <<cfgEnabled, containers>>

WorkerRank(w) == IF w = "w1" THEN 1 ELSE 2

\* Mutant of FirstIdle: no pool thread ever takes a job
FirstIdle_Never(w) == FALSE

\* Pool threads are interchangeable: a job goes to the first idle one
FirstIdle(w) == \A v \in Workers : WorkerRank(v) < WorkerRank(w) => pc[v] # "idle"

\* Mutant of CycleEnabled: the enable flag is not consulted
CycleEnabled_Ignored == TRUE

\* line 87: config.get("enabled", True)
CycleEnabled == cfgEnabled

\* The part of the operation budget kept for the pending one-shot job
Reserved == IF initialPending THEN 1 ELSE 0

\* The scheduler runs a job (the one-shot initial_check, or session_check on
\* its interval, one instance at a time) and the job reads the enable flag
\* before it takes the lock: lines 87-88.  The one-shot job runs within
\* the part of the operation budget that was reserved for it.
Fire(w, job) ==
    /\ pc[w] = "idle"
    /\ FirstIdle(w)
    /\ scheduler = "running"
    /\ ops' = ops + 1
    /\ IF job = "initial"
       THEN /\ initialPending
            /\ initialPending' = FALSE
       ELSE /\ \A v \in Workers : loc[v].op # "interval"
            /\ ops + Reserved < MaxOps
            /\ UNCHANGED initialPending
    /\ IF CycleEnabled
       THEN /\ pc' = [pc EXCEPT ![w] = "cycle_lock"]
            /\ loc' = [loc EXCEPT ![w] =
                         [NoLocals EXCEPT !.op = job,
                                          !.late = \E c \in Callers :
                                                      pc[c] = "stop_body"]]
            /\ ret' = NoRet
       ELSE /\ ret' = [who |-> w, op |-> job, value |-> "None", line |-> 88]
            /\ UNCHANGED <<pc, loc>>
    /\ UNCHANGED <<cfg, scheduler, status, prev_sessions_active, lock, log, lastCycle>>

\* lines 90-92: take the lock, stamp last_check, clear error
CheckBegin(w) ==
    /\ pc[w] = "cycle_lock"
    /\ lock = NoThread
    /\ lock' = w
    /\ status' = [status EXCEPT !.last_check = <<now>>, !.error = "None"]
    /\ pc' = [pc EXCEPT ![w] = "query"]
    /\ ret' = NoRet
    /\ UNCHANGED <<cfg, scheduler, initialPending, prev_sessions_active, log, loc,
                   lastCycle, ops>>

\* Mutant of Transition: no edge is ever detected
Transition_NoEdge(has_sessions, prev) == "none"

\* Mutant of Transition: the comparison is made with containers_paused
Transition_ByPausedFlag(has_sessions, prev) ==
    IF has_sessions /\ ~status.containers_paused THEN "pause"
    ELSE IF ~has_sessions /\ status.containers_paused THEN "unpause"
    ELSE "none"

\* Mutant of Transition: the two edges are taken for each other
Transition_Inverted(has_sessions, prev) ==
    IF has_sessions /\ ~prev THEN "unpause"
    ELSE IF ~has_sessions /\ prev THEN "pause"
    ELSE "none"

\* Mutant of Transition: active sessions always count as a new edge
Transition_IgnoresPrev(has_sessions, prev) ==
    IF has_sessions THEN "pause"
    ELSE IF prev THEN "unpause"
    ELSE "none"

\* The edge test of lines 115 and 131
Transition(has_sessions, prev) ==
    IF has_sessions /\ ~prev THEN "pause"
    ELSE IF ~has_sessions /\ prev THEN "unpause"
    ELSE "none"

\* Mutant of EdgeEntry: the two announcements are taken for each other
EdgeEntry_Swapped(kind, t) ==
    IF kind = "pause" THEN Entry(t, "sessions_ended", "All users disconnected")
    ELSE Entry(t, "sessions_started", "User connected to Jellyfin")

\* lines 117 / 135: the entry that announces the edge
EdgeEntry(kind, t) ==
    IF kind = "pause" THEN Entry(t, "sessions_started", "User connected to Jellyfin")
    ELSE Entry(t, "sessions_ended", "All users disconnected")

\* Mutant of OnQueryError: the observed value is stored before the error test
OnQueryError_StoresResult(st, error, t) ==
    [st EXCEPT !.error = error, !.sessions_active = FALSE,
               !.history = AddHistory(@, t, "error", error)]

\* lines 101-103: the session source reported an error at clock value t
OnQueryError(st, error, t) ==
    [st EXCEPT !.error = error, !.history = AddHistory(@, t, "error", error)]

\* lines 95-117 / 131-135 / 150: query the session source, read the enabled
\* list, compare with the previous cycle
CheckQuery(w) ==
    /\ pc[w] = "query"
    /\ \E resp \in Responses :
         LET r == has_active_sessions(resp)
             has_sessions == r[1]
             error == r[2]
             enabled_containers == get_enabled_containers
             seen == [status EXCEPT !.sessions_active = has_sessions]
             kind == Transition(has_sessions, prev_sessions_active)
         IN
         IF error # "None"
         THEN \* lines 100-104
              /\ status' = OnQueryError(status, error, now)
              /\ log' = Append(log, Entry(now, "error", error))
              /\ Finish(w, "None", 104)
              /\ CycleDone("error")
              /\ UNCHANGED prev_sessions_active
         ELSE IF enabled_containers = <<>>
         THEN \* lines 106-112
              /\ status' = seen
              /\ Finish(w, "None", 112)
              /\ CycleDone("empty")
              /\ UNCHANGED <<prev_sessions_active, log>>
         ELSE IF kind # "none"
         THEN \* lines 115-119 / 131-137
              /\ status' = [seen EXCEPT !.history =
                               AddHistory(@, now, EdgeEntry(kind, now).action,
                                          EdgeEntry(kind, now).details)]
              /\ log' = Append(log, EdgeEntry(kind, now))
              /\ pc' = [pc EXCEPT ![w] = "batch"]
              /\ loc' = [loc EXCEPT ![w].kind = kind, ![w].has = has_sessions,
                                    ![w].enabled = enabled_containers,
                                    ![w].todo = enabled_containers]
              /\ ret' = NoRet
              /\ UNCHANGED <<prev_sessions_active, lock, lastCycle>>
         ELSE \* line 150 with no transition
              /\ status' = seen
              /\ prev_sessions_active' = has_sessions
              /\ Finish(w, "None", 150)
              /\ CycleDone("steady")
              /\ UNCHANGED log
    /\ UNCHANGED <<cfg, scheduler, initialPending, ops>>

\* One iteration of DockerManager.pause_containers / unpause_containers
\* (docker_manager.py 120-132), for the check cycle and the force operations
BatchCall(t) ==
    /\ pc[t] = "batch"
    /\ loc[t].todo # <<>>
    /\ \E cond \in ContainerConds :
         LET name == Head(loc[t].todo)
             r == IF loc[t].kind = "pause" THEN pause_container(name, cond)
                  ELSE unpause_container(name, cond)
         IN
         IF r = Raised
         THEN \* the exception leaves the with-block and the operation
              /\ UNCHANGED status
              /\ Finish(t, Raised, 124)
              /\ IF loc[t].op \in CycleOps THEN CycleDone("raised")
                 ELSE UNCHANGED lastCycle
         ELSE /\ loc' = [loc EXCEPT
                           ![t].todo = Tail(@),
                           ![t].results = Append(@, [name |-> name, ok |-> r[1],
                                                     msg |-> r[2]])]
              /\ pc' = [pc EXCEPT ![t] =
                           IF Tail(loc[t].todo) = <<>> THEN "record" ELSE "batch"]
              /\ ret' = NoRet
              /\ UNCHANGED <<status, lock, lastCycle>>
    /\ UNCHANGED <<cfg, scheduler, initialPending, prev_sessions_active, log, ops>>

\* lines 120-128 / 138-148, then line 150
CheckRecord(w) ==
    /\ pc[w] = "record"
    /\ loc[w].op \in CycleOps
    /\ LET kind == loc[w].kind
           results == loc[w].results
       IN
       /\ status' = [status EXCEPT
                       !.history = AddResults(@, now, kind, results),
                       !.containers_paused = (kind = "pause"),
                       !.last_action = IF kind = "pause" THEN "Paused containers"
                                       ELSE "Unpaused containers"]
       /\ log' = log \o ResultEntries(now, kind, results)
       /\ prev_sessions_active' = loc[w].has
       /\ CycleDone(kind \o "_edge")
    /\ Finish(w, "None", 150)
    /\ UNCHANGED <<cfg, scheduler, initialPending, ops>>

----------------------------------------------------------------------------
(* Operations called from the web threads *)

CallerOps == {"start", "stop", "restart", "force_pause", "force_unpause", "status"}

\* Mutant of LockFree: the operation does not wait for the lock
LockFree_NoWait == TRUE

\* threading.Lock: acquire blocks while another thread holds the lock
LockFree == lock = NoThread

\* A request handler of main.py enters a monitor operation and passes its
\* "with self._lock:".  An operation is admitted while the operation budget
\* also covers the one-shot job that is pending or that it may schedule.  The status property (lines 56-60) holds the lock only
\* to return the reference to self._status.
Call(t, op) ==
    /\ pc[t] = "idle"
    /\ LockFree
    /\ ops + (IF op \in {"start", "restart"} THEN 1 ELSE Reserved) < MaxOps
    /\ ops' = ops + 1
    /\ lock' = IF op = "status" THEN lock ELSE t
    /\ LET enabled_containers == get_enabled_containers
       IN
       CASE op = "start" ->
              /\ pc' = [pc EXCEPT ![t] = "start_body"]
              /\ loc' = [loc EXCEPT ![t] = [NoLocals EXCEPT !.op = op]]
         [] op \in {"stop", "restart"} ->
              /\ pc' = [pc EXCEPT ![t] = "stop_body"]
              /\ loc' = [loc EXCEPT ![t] = [NoLocals EXCEPT !.op = op]]
         [] op \in {"force_pause", "force_unpause"} ->
              \* lines 212-213 / 222-223
              /\ pc' = [pc EXCEPT ![t] = IF enabled_containers = <<>> THEN "record"
                                         ELSE "batch"]
              /\ loc' = [loc EXCEPT ![t] =
                           [NoLocals EXCEPT
                              !.op = op,
                              !.kind = IF op = "force_pause" THEN "pause"
                                       ELSE "unpause",
                              !.enabled = enabled_containers,
                              !.todo = enabled_containers]]
         [] op = "status" ->
              /\ pc' = [pc EXCEPT ![t] = "to_dict_fields"]
              /\ loc' = [loc EXCEPT ![t] = [NoLocals EXCEPT !.op = op,
                                                            !.seen = <<status>>]]
    /\ ret' = NoRet
    /\ UNCHANGED <<cfg, scheduler, initialPending, status, prev_sessions_active,
                   log, lastCycle>>

\* restart() line 207: start() takes the lock again after stop() released it
RestartStart(t) ==
    /\ pc[t] = "start_lock"
    /\ LockFree
    /\ lock' = t
    /\ pc' = [pc EXCEPT ![t] = "start_body"]
    /\ ret' = NoRet
    /\ UNCHANGED <<cfg, scheduler, initialPending, status, prev_sessions_active,
                   log, loc, lastCycle, ops>>

\* How arming the timer can end: "construct_fails" raises before
\* self._scheduler is assigned (lines 159-160), "arm_fails" after it and
\* before the scheduler runs (lines 161-168)
ArmOutcomes == {"ok", "construct_fails", "arm_fails"}

\* Mutant of AlreadyRunning: start() arms a timer whatever the scheduler state
AlreadyRunning_Unchecked == FALSE

\* Mutant of AlreadyRunning: only a scheduler left behind counts as running
AlreadyRunning_OnlyIfStopped == scheduler = "stopped"

\* Mutant of AlreadyRunning: any scheduler object counts as running
AlreadyRunning_NotNone == scheduler # "none"

\* line 155: self._scheduler is not None and self._scheduler.running
AlreadyRunning == scheduler = "running"

\* SessionMonitor.start, lines 155-184
StartBody(t) ==
    /\ pc[t] = "start_body"
    /\ IF AlreadyRunning
       THEN /\ UNCHANGED <<scheduler, initialPending, status, log>>
            /\ Finish(t, TRUE, 156)
       ELSE \E outcome \in ArmOutcomes :
              CASE outcome = "ok" ->
                     /\ scheduler' = "running"
                     /\ initialPending' = TRUE
                     /\ status' = [status EXCEPT !.running = TRUE,
                                      !.history = AddHistory(@, now, "started",
                                                             "Monitor started")]
                     /\ log' = Append(log, StartedEntry(now))
                     /\ Finish(t, TRUE, 180)
                [] outcome = "construct_fails" ->
                     /\ status' = [status EXCEPT !.error = "arm error"]
                     /\ Finish(t, FALSE, 184)
                     /\ UNCHANGED <<scheduler, initialPending, log>>
                [] outcome = "arm_fails" ->
                     /\ scheduler' = "stopped"
                     /\ status' = [status EXCEPT !.error = "arm error"]
                     /\ Finish(t, FALSE, 184)
                     /\ UNCHANGED <<initialPending, log>>
    /\ UNCHANGED <<cfg, prev_sessions_active, lastCycle, ops>>

\* Jobs of a scheduler that has been shut down keep running in its pool
Orphaned(l) ==
    [v \in Threads |-> IF l[v].op \in {"initial", "interval"}
                       THEN [l[v] EXCEPT !.op = "orphan"] ELSE l[v]]

\* stop() returns; restart() goes on to start() whatever stop() returned
AfterStop(t, value, line, locals) ==
    /\ lock' = NoThread
    /\ ret' = [Return(t, value, line) EXCEPT !.op = "stop"]
    /\ IF loc[t].op = "restart"
       THEN /\ pc' = [pc EXCEPT ![t] = "start_lock"]
            /\ loc' = Observe(locals, status')
       ELSE /\ pc' = [pc EXCEPT ![t] = "idle"]
            /\ loc' = Observe([locals EXCEPT ![t] = NoLocals], status')

\* line 189: self._scheduler is None
NoScheduler == scheduler = "none"

\* SessionMonitor.stop, lines 189-202.  BackgroundScheduler.shutdown raises
\* SchedulerNotRunningError on a scheduler that is not running.
StopBody(t) ==
    /\ pc[t] = "stop_body"
    /\ IF NoScheduler
       THEN /\ UNCHANGED <<scheduler, initialPending, status, log>>
            /\ AfterStop(t, TRUE, 190, loc)
       ELSE IF scheduler # "running"
       THEN /\ status' = [status EXCEPT !.error = "Scheduler is not running"]
            /\ AfterStop(t, FALSE, 202, loc)
            /\ UNCHANGED <<scheduler, initialPending, log>>
       ELSE /\ scheduler' = "none"
            /\ initialPending' = FALSE
            /\ status' = [status EXCEPT !.running = FALSE,
                             !.history = AddHistory(@, now, "stopped",
                                                    "Monitor stopped")]
            /\ log' = Append(log, Entry(now, "stopped", "Monitor stopped"))
            /\ AfterStop(t, TRUE, 198, Orphaned(loc))
    /\ UNCHANGED <<cfg, prev_sessions_active, lastCycle, ops>>

\* force_pause / force_unpause, lines 214-217 / 224-227
ForceRecord(t) ==
    /\ pc[t] = "record"
    /\ loc[t].op \in {"force_pause", "force_unpause"}
    /\ LET pausing == loc[t].op = "force_pause"
           action == loc[t].op
           details == IF pausing THEN "Manual pause triggered"
                      ELSE "Manual unpause triggered"
       IN /\ status' = [status EXCEPT
                          !.containers_paused = pausing,
                          !.last_action = IF pausing THEN "Force paused containers"
                                          ELSE "Force unpaused containers",
                          !.history = AddHistory(@, now, action, details)]
          /\ log' = Append(log, Entry(now, action, details))
          /\ Finish(t, loc[t].results, IF pausing THEN 217 ELSE 227)
    /\ UNCHANGED <<cfg, scheduler, initialPending, prev_sessions_active,
                   lastCycle, ops>>

\* line 60, "return self._status": what the object handed to the caller
\* holds at any later moment is what the monitor's own status holds
StatusRef == status

\* MonitorStatus.to_dict lines 34-39, evaluated outside the lock (last_check
\* is <<>> for None, else a one-element sequence holding the ISO string)
ToDictFields(t) ==
    /\ pc[t] = "to_dict_fields"
    /\ loc' = [loc EXCEPT ![t].snap =
                 [running |-> status.running,
                  last_check |-> [i \in 1..Len(status.last_check) |->
                                    Isoformat(status.last_check[i])],
                  last_action |-> status.last_action,
                  sessions_active |-> status.sessions_active,
                  containers_paused |-> status.containers_paused,
                  error |-> status.error]]
    /\ pc' = [pc EXCEPT ![t] = "to_dict_history"]
    /\ ret' = NoRet
    /\ UNCHANGED <<cfg, scheduler, initialPending, status, prev_sessions_active,
                   lock, log, lastCycle, ops>>

\* MonitorStatus.to_dict line 40 and its return
ToDictFinish(t) ==
    /\ pc[t] = "to_dict_history"
    /\ ret' = Return(t, [fields |-> loc[t].snap,
                         history |-> ToDictHistory(status.history)], 33)
    /\ pc' = [pc EXCEPT ![t] = "idle"]
    /\ loc' = [loc EXCEPT ![t] = NoLocals]
    /\ UNCHANGED <<cfg, scheduler, initialPending, status, prev_sessions_active,
                   lock, log, lastCycle, ops>>

----------------------------------------------------------------------------

Next ==
    \/ \E b \in BOOLEAN : SetEnabled(b)
    \/ \E n \in Names : ToggleContainer(n)
    \/ \E w \in Workers, job \in {"initial", "interval"} : Fire(w, job)
    \/ \E w \in Workers : CheckBegin(w)
    \/ \E w \in Workers : CheckQuery(w)
    \/ \E t \in Threads : BatchCall(t)
    \/ \E w \in Workers : CheckRecord(w)
    \/ \E t \in Callers, op \in CallerOps : Call(t, op)
    \/ \E t \in Callers : RestartStart(t)
    \/ \E t \in Callers : StartBody(t)
    \/ \E t \in Callers : StopBody(t)
    \/ \E t \in Callers : ForceRecord(t)
    \/ \E t \in Callers : ToDictFields(t)
    \/ \E t \in Callers : ToDictFinish(t)

Spec == Init /\ [][Next]_vars

----------------------------------------------------------------------------
(* Scheduling.  A thread that can take a step of the operation it is in     *)
(* eventually takes it, and the scheduler hands a due one-shot job to an    *)
(* idle pool thread; requests (Call), interval fires and config changes are *)
(* up to the environment.  The monitor starts as constructed, not started.  *)

WorkerStep(w) ==
    \/ Fire(w, "initial")
    \/ CheckBegin(w)
    \/ CheckQuery(w)
    \/ BatchCall(w)
    \/ CheckRecord(w)

CallerStep(t) ==
    \/ RestartStart(t)
    \/ StartBody(t)
    \/ StopBody(t)
    \/ BatchCall(t)
    \/ ForceRecord(t)
    \/ ToDictFields(t)
    \/ ToDictFinish(t)

Fairness ==
    /\ \A w \in Workers : WF_vars(WorkerStep(w))
    /\ \A t \in Callers : WF_vars(CallerStep(t))

InitLive == Constructed /\ InitRest

SpecLive == InitLive /\ [][Next]_vars /\ Fairness

\* The interval trigger of a running scheduler keeps coming due (lines
\* 161-168), as far as the operation budget admits another fire
TimerFairness == \A w \in Workers : WF_vars(Fire(w, "interval"))

SpecTimer == Init /\ [][Next]_vars /\ Fairness /\ TimerFairness

----------------------------------------------------------------------------
(* A monitor whose history already holds n entries: n force_pause calls on  *)
(* a monitor that was never started (each appends one force_pause entry,    *)
(* lines 214-216), with no workload enabled at the time.                    *)

ForcePauseEntry(t) == Entry(t, "force_pause", "Manual pause triggered")

Prefilled(n) ==
    /\ scheduler = "none"
    /\ initialPending = FALSE
    /\ log = [i \in 1..n |-> ForcePauseEntry(i - 1)]
    /\ status = [InitStatus EXCEPT !.containers_paused = TRUE,
                                   !.last_action = "Force paused containers",
                                   !.history = log]

PrefillLens == {SNAPSHOT_HISTORY - 1, MAX_HISTORY - 1}

InitHist == (\E n \in PrefillLens : Prefilled(n)) /\ InitRest

SpecHist == InitHist /\ [][Next]_vars

----------------------------------------------------------------------------
(* Vocabulary of the properties *)

ResultNames(rs) == [i \in 1..Len(rs) |-> rs[i].name]

Min(a, b) == IF a < b THEN a ELSE b

\* Thread t is inside a "with self._lock:" block
InCS(t) == pc[t] \in {"query", "batch", "record", "start_body", "stop_body"}

\* The step ends w's check cycle after the session source answered
\* "sessions active" (resp. "no sessions") without error
SawActive == status'.sessions_active /\ status'.error = "None"

SawIdle == ~status'.sessions_active /\ status'.error = "None"

\* The step is w's own CheckQuery step
QueryStep(w) == pc[w] = "query" /\ pc'[w] # "query"

\* The step leaves the status record, the log and the edge memory alone
NoMonitorEffect ==
    /\ status' = status
    /\ log' = log
    /\ prev_sessions_active' = prev_sessions_active

\* The step ends the edge cycle (kind "pause" or "unpause") of worker w
EdgeCycleEnds(w, kind) ==
    /\ loc[w].op \in CycleOps
    /\ loc[w].kind = kind
    /\ pc[w] \in {"batch", "record"}
    /\ pc'[w] = "idle"

----------------------------------------------------------------------------
(* C1.  A cycle that finds sessions active, with prev_sessions_active false *)
(* and a non-empty enabled list, invokes pause exactly once per enabled     *)
(* workload and then sets containers_paused and last_action = "Paused       *)
(* containers"; a cycle that finds sessions active again (prev true) calls  *)
(* nothing and logs nothing.                                                *)
C1_PauseEdge ==
    [][\A w \in Workers :
         /\ (QueryStep(w) /\ ~prev_sessions_active /\ SawActive
               /\ get_enabled_containers # <<>>)
            => /\ pc'[w] = "batch"
               /\ loc'[w].kind = "pause"
               /\ loc'[w].todo = get_enabled_containers
         /\ EdgeCycleEnds(w, "pause")
            => /\ ResultNames(loc[w].results) = loc[w].enabled
               /\ status'.containers_paused
               /\ status'.last_action = "Paused containers"
         /\ (QueryStep(w) /\ prev_sessions_active /\ SawActive)
            => /\ pc'[w] = "idle"
               /\ log' = log
               /\ status'.history = status.history
      ]_vars

(* C2.  The same for the true -> false edge: unpause exactly once per       *)
(* enabled workload, then containers_paused = false and last_action =       *)
(* "Unpaused containers"; a following cycle that finds no sessions again    *)
(* calls nothing and logs nothing.                                          *)
C2_UnpauseEdge ==
    [][\A w \in Workers :
         /\ (QueryStep(w) /\ prev_sessions_active /\ SawIdle
               /\ get_enabled_containers # <<>>)
            => /\ pc'[w] = "batch"
               /\ loc'[w].kind = "unpause"
               /\ loc'[w].todo = get_enabled_containers
         /\ EdgeCycleEnds(w, "unpause")
            => /\ ResultNames(loc[w].results) = loc[w].enabled
               /\ ~status'.containers_paused
               /\ status'.last_action = "Unpaused containers"
         /\ (QueryStep(w) /\ ~prev_sessions_active /\ SawIdle)
            => /\ pc'[w] = "idle"
               /\ log' = log
               /\ status'.history = status.history
      ]_vars

(* C3.  A cycle whose session-source query returns an error leaves          *)
(* prev_sessions_active, sessions_active, containers_paused and last_action *)
(* as they were, ends without a workload-controller call, stores the error  *)
(* string in status.error and appends exactly one "error" entry.            *)
SameDecision ==
    /\ prev_sessions_active' = prev_sessions_active
    /\ status'.sessions_active = status.sessions_active
    /\ status'.containers_paused = status.containers_paused
    /\ status'.last_action = status.last_action

C3_QueryError ==
    [][\A w \in Workers :
         /\ (pc[w] = "cycle_lock" /\ pc'[w] = "query")
            => SameDecision /\ log' = log
         /\ (QueryStep(w) /\ status'.error # "None")
            => /\ SameDecision
               /\ pc'[w] = "idle"
               /\ lock' = NoThread
               /\ Len(log') = Len(log) + 1
               /\ SubSeq(log', 1, Len(log)) = log
               /\ log'[Len(log')].action = "error"
               /\ log'[Len(log')].details = status'.error
               /\ status'.history # <<>>
               /\ status'.history[Len(status'.history)] = log'[Len(log')]
      ]_vars

C3_Witness ==
    /\ lastCycle = "error"
    /\ ret.line = 104
    /\ status.error = "Cannot connect to Jellyfin"
    /\ status.history[Len(status.history)].action = "error"
    /\ prev_sessions_active /\ status.sessions_active /\ status.containers_paused

(* C4.  The stored history never holds more than MAX_HISTORY entries and is *)
(* always the most recently appended entries, in the order they were        *)
(* appended.                                                                *)
C4_HistoryBounded ==
    /\ Len(status.history) <= MAX_HISTORY
    /\ Len(status.history) = Min(Len(log), MAX_HISTORY)
    /\ \A i \in 1..Len(status.history) :
         status.history[i] = log[Len(log) - Len(status.history) + i]

C4_Witness ==
    /\ Len(log) > MAX_HISTORY + 1
    /\ Len(status.history) = MAX_HISTORY

(* C5.  A snapshot's history is the last min(SNAPSHOT_HISTORY, n) entries   *)
(* of the stored history, in the same order, and taking the snapshot        *)
(* changes neither the stored history nor any other status field.           *)
C5_SnapshotHistory ==
    [][\A t \in Callers :
         /\ (pc'[t] # pc[t] /\ (loc[t].op = "status" \/ loc'[t].op = "status"))
            => NoMonitorEffect
         /\ (pc[t] = "to_dict_history" /\ pc'[t] = "idle")
            => LET h == ret'.value.history
                   n == Len(status.history)
               IN /\ Len(h) = Min(SNAPSHOT_HISTORY, n)
                  /\ \A i \in 1..Len(h) : h[i] = status.history[n - Len(h) + i]
      ]_vars

C5_Witness ==
    /\ ret.op = "status"
    /\ Len(ret.value.history) = SNAPSHOT_HISTORY
    /\ Len(status.history) > SNAPSHOT_HISTORY
    /\ ret.value.history[1] # status.history[1]

(* C6.  A check cycle that reads the global enable flag as false changes    *)
(* nothing: last_check, error, sessions_active, containers_paused,          *)
(* last_action, history and prev_sessions_active stay as they were, and the *)
(* cycle ends without taking the lock or calling a collaborator.            *)
C6_DisabledNoop ==
    [][\A w \in Workers :
         (pc[w] = "idle" /\ ~cfgEnabled /\ (pc'[w] # "idle" \/ ret'.who = w))
         => /\ NoMonitorEffect
            /\ pc'[w] = "idle"
            /\ lock' = lock
            /\ scheduler' = scheduler
      ]_vars

C6_Witness ==
    /\ ret.line = 88
    /\ ~cfgEnabled
    /\ status.error # "None"
    /\ status.last_check # <<>>
    /\ \A w \in Workers : pc[w] = "idle"

(* C7.  start() called while the timer is running returns success, arms no *)
(* second timer, schedules no further immediate check, appends no entry and *)
(* leaves every status field as it was.                                     *)
C7_StartIdempotent ==
    [][\A t \in Callers :
         (pc[t] = "start_body" /\ pc'[t] # "start_body" /\ scheduler = "running")
         => /\ ret'.value = TRUE
            /\ NoMonitorEffect
            /\ scheduler' = scheduler
            /\ initialPending' = initialPending
      ]_vars

C7_Witness ==
    /\ ret.op = "start"
    /\ ret.line = 156
    /\ ret.value = TRUE
    /\ status.running
    /\ Len(SelectSeq(log, LAMBDA e : e.action = "started")) = 1

(* C8.  Whenever the timer is not running (never started, stopped, or left  *)
(* behind by a start() that failed to arm it), stop() returns success and   *)
(* changes nothing.                                                         *)
C8_StopNotRunning ==
    [][\A t \in Callers :
         (pc[t] = "stop_body" /\ pc'[t] # "stop_body" /\ scheduler # "running")
         => /\ ret'.value = TRUE
            /\ NoMonitorEffect
      ]_vars

(* C9.  Every force_pause() / force_unpause() call invokes the batch once   *)
(* on the enabled list read at the call, then sets containers_paused to the *)
(* target value, sets last_action, appends exactly one force_pause /        *)
(* force_unpause entry and returns the per-workload outcomes.               *)
ForceOps == {"force_pause", "force_unpause"}

C9_ForceOverride ==
    [][\A t \in Callers :
         /\ (pc[t] = "idle" /\ loc'[t].op \in ForceOps)
            => loc'[t].todo = get_enabled_containers
         /\ (loc[t].op \in ForceOps /\ pc[t] \in {"batch", "record"}
               /\ pc'[t] = "idle")
            => /\ status'.containers_paused = (loc[t].op = "force_pause")
               /\ status'.last_action =
                     (IF loc[t].op = "force_pause" THEN "Force paused containers"
                      ELSE "Force unpaused containers")
               /\ ResultNames(loc[t].results) = loc[t].enabled
               /\ Len(log') = Len(log) + 1
               /\ log'[Len(log')].action = loc[t].op
               /\ ret'.value = loc[t].results
      ]_vars

(* C10.  A thread is inside a locked section only while it holds the lock,  *)
(* so at most one of check cycle, start, stop, force_pause, force_unpause   *)
(* is inside one at a time; every step that calls the workload controller   *)
(* or writes the status, the history or the edge memory is taken by the     *)
(* thread that holds the lock.                                              *)
LockDiscipline ==
    /\ \A t \in Threads : InCS(t) => lock = t
    /\ Cardinality({t \in Threads : InCS(t)}) <= 1

WritesByHolder ==
    (status' # status \/ log' # log \/ prev_sessions_active' # prev_sessions_active
       \/ scheduler' # scheduler
       \/ \E t \in Threads : pc[t] = "batch" /\ loc'[t] # loc[t])
    => \E t \in Threads :
         /\ pc'[t] # pc[t] \/ loc'[t] # loc[t]
         /\ lock = t \/ (lock = NoThread /\ lock' = t)
         /\ \A u \in Threads \ {t} : ~InCS(u)

C10_MutualExclusion == []LockDiscipline /\ [][WritesByHolder]_vars

C10_Witness ==
    \E w \in Workers, t \in Callers :
      /\ pc[w] = "cycle_lock"
      /\ lock = t
      /\ pc[t] = "batch"
      /\ loc[t].results # <<>>

----------------------------------------------------------------------------
(* Vocabulary of the snapshot properties *)

\* MonitorStatus.to_dict applied to one value of the status
SnapshotOf(st) ==
    [fields |-> [running |-> st.running,
                 last_check |-> [i \in 1..Len(st.last_check) |->
                                   Isoformat(st.last_check[i])],
                 last_action |-> st.last_action,
                 sessions_active |-> st.sessions_active,
                 containers_paused |-> st.containers_paused,
                 error |-> st.error],
     history |-> ToDictHistory(st.history)]

\* The step returns a status snapshot to caller t
SnapshotReturns(t) == pc[t] = "to_dict_history" /\ pc'[t] = "idle"

(* C11.  Every status snapshot equals the snapshot of the status as it was  *)
(* at one instant, between the call and the return, at which no operation   *)
(* was part-way through its updates (the lock was free); and its history is *)
(* not shorter than the snapshot history was when the call was made.        *)
C11_ConsistentSnapshot ==
    [][\A t \in Callers :
         SnapshotReturns(t)
         => /\ \E i \in 1..Len(loc[t].seen) :
                  ret'.value = SnapshotOf(loc[t].seen[i])
            /\ Len(ret'.value.history)
                  >= Len(ToDictHistory(loc[t].seen[1].history))
      ]_vars

(* C12.  The value the status accessor returned stays what it was when it   *)
(* was returned, whatever the monitor does afterwards.                      *)
C12_DefensiveCopy ==
    \A t \in Callers : loc[t].op = "status" => StatusRef = loc[t].seen[1]

(* C13.  No check cycle ends by raising: whatever the session source and    *)
(* the workload controller do, the cycle returns, and a cycle that met a    *)
(* session-source failure leaves it in status.error and in the history.     *)
C13_NoCycleRaises ==
    /\ ret.op \in CycleOps => ret.line # 124
    /\ lastCycle # "raised"
    /\ (ret.op \in CycleOps /\ ret.line = 104)
       => /\ status.error # "None"
          /\ status.history[Len(status.history)].action = "error"

(* C14.  In the batch of an edge cycle every enabled workload is attempted  *)
(* exactly once whatever the earlier attempts gave; the cycle then appends  *)
(* one pause / unpause entry per success and one pause_failed /             *)
(* unpause_failed entry per failure, leaves status.error unset and updates  *)
(* containers_paused, last_action and prev_sessions_active.                 *)
C14_PartialFailure ==
    [][\A w \in Workers : \A kind \in {"pause", "unpause"} :
         /\ (pc[w] = "batch" /\ loc[w].op \in CycleOps /\ pc'[w] # "batch")
            => pc'[w] = "record"
         /\ EdgeCycleEnds(w, kind)
            => /\ ResultNames(loc[w].results) = loc[w].enabled
               /\ Len(log') = Len(log) + Len(loc[w].enabled)
               /\ \A i \in 1..Len(loc[w].results) :
                     log'[Len(log) + i].action =
                        (IF loc[w].results[i].ok THEN kind ELSE kind \o "_failed")
               /\ status'.error = "None"
               /\ status'.containers_paused = (kind = "pause")
               /\ status'.last_action = (IF kind = "pause" THEN "Paused containers"
                                         ELSE "Unpaused containers")
               /\ prev_sessions_active' = loc[w].has
      ]_vars

(* C15.  restart() runs stop() and then start(), whatever stop() returned,  *)
(* and returns what start() returns; no step of start(), stop() or          *)
(* restart() writes prev_sessions_active; so a cycle that runs after a      *)
(* restart with prev_sessions_active true and finds sessions active calls   *)
(* no pause and appends no sessions_started entry.                          *)
Lifecycle == {"start", "stop", "restart"}

C15_RestartKeepsPrev ==
    [][/\ \A t \in Callers :
            /\ (pc'[t] # pc[t] /\ (loc[t].op \in Lifecycle \/ loc'[t].op \in Lifecycle))
               => prev_sessions_active' = prev_sessions_active
            /\ (loc[t].op = "restart" /\ pc[t] = "stop_body" /\ pc'[t] # "stop_body")
               => /\ pc'[t] = "start_lock"
                  /\ ret'.op = "stop"
                  /\ ret'.line \in {190, 198, 202}
            /\ (loc[t].op = "restart" /\ pc[t] = "start_body" /\ pc'[t] # "start_body")
               => /\ pc'[t] = "idle"
                  /\ ret'.op = "restart"
                  /\ ret'.line \in {156, 180, 184}
                  /\ ret'.value = (ret'.line # 184)
       /\ \A w \in Workers :
            (QueryStep(w) /\ prev_sessions_active /\ SawActive
               /\ \E i \in 1..Len(log) : log[i].action = "stopped")
            => /\ pc'[w] = "idle"
               /\ log' = log
               /\ prev_sessions_active'
      ]_vars

\* Stopped and started again with prev_sessions_active true; the immediate
\* cycle of the new start found sessions still active and did nothing
C15_Witness ==
    /\ ret.op = "initial"
    /\ ret.line = 150
    /\ lastCycle = "steady"
    /\ prev_sessions_active /\ status.sessions_active /\ status.containers_paused
    /\ Len(log) >= 2
    /\ log[Len(log) - 1].action = "stopped"
    /\ log[Len(log)].action = "started"
    /\ Len(SelectSeq(log, LAMBDA e : e.action = "sessions_started")) = 1

(* C16.  A start() that cannot arm the timer returns False with the error   *)
(* text in status.error, running still false and no started entry; a stop() *)
(* whose shutdown fails returns False with the error text in status.error   *)
(* and running unchanged; after either, start() does not take the "already  *)
(* running" exit but tries to arm the timer again.                          *)
C16_ArmCancelFailure ==
    [][\A t \in Callers :
         /\ (pc[t] = "start_body" /\ pc'[t] # "start_body" /\ ret'.line = 184)
            => /\ ret'.value = FALSE
               /\ status'.error = "arm error"
               /\ ~status'.running
               /\ log' = log
               /\ status'.history = status.history
               /\ scheduler' # "running"
               /\ ~initialPending'
         /\ (pc[t] = "stop_body" /\ pc'[t] # "stop_body" /\ ret'.line = 202)
            => /\ ret'.value = FALSE
               /\ status'.error = "Scheduler is not running"
               /\ status'.running = status.running
               /\ log' = log
               /\ scheduler' # "running"
         /\ (pc[t] = "start_body" /\ pc'[t] # "start_body" /\ scheduler # "running")
            => ret'.line \in {180, 184}
      ]_vars

\* A start() that succeeded after an earlier start() had failed to arm
C16_Witness ==
    /\ ret.op = "start"
    /\ ret.line = 180
    /\ ret.value = TRUE
    /\ status.running
    /\ status.error = "arm error"
    /\ Len(SelectSeq(log, LAMBDA e : e.action = "started")) = 1
    /\ ops = 2

(* C17.  Every enabled check cycle whose query succeeded and that returns   *)
(* sets prev_sessions_active to the value it observed, also when no         *)
(* workload is enabled; so a cycle that finds sessions active after such a  *)
(* cycle had already found them active starts no pause batch.               *)
C17_PrevUpdated ==
    [][\A w \in Workers :
         /\ (QueryStep(w) /\ pc'[w] = "idle" /\ status'.error = "None")
            => prev_sessions_active' = status'.sessions_active
         /\ (pc[w] = "record" /\ pc'[w] = "idle" /\ loc[w].op \in CycleOps)
            => prev_sessions_active' = status'.sessions_active
         /\ (QueryStep(w) /\ SawActive /\ status.sessions_active
               /\ lastCycle = "empty")
            => pc'[w] # "batch"
      ]_vars

(* C18.  An edge cycle appends exactly one sessions_started (resp.          *)
(* sessions_ended) entry, then exactly one pause / pause_failed (resp.      *)
(* unpause / unpause_failed) entry per enabled workload, in the order of    *)
(* the enabled list, and nothing else.                                      *)
C18_EntryOrder ==
    [][\A w \in Workers : \A kind \in {"pause", "unpause"} :
         /\ (QueryStep(w) /\ pc'[w] = "batch" /\ loc'[w].kind = kind)
            => /\ Len(log') = Len(log) + 1
               /\ SubSeq(log', 1, Len(log)) = log
               /\ log'[Len(log')].action = EdgeEntry(kind, 0).action
         /\ (pc[w] = "batch" /\ loc[w].op \in CycleOps /\ pc'[w] # "idle")
            => log' = log
         /\ EdgeCycleEnds(w, kind)
            => LET n == Len(loc[w].enabled)
                   k == Len(log') - n
               IN /\ k >= 1
                  /\ k = Len(log)
                  /\ SubSeq(log', 1, k) = log
                  /\ log'[k].action = EdgeEntry(kind, 0).action
                  /\ Len(loc[w].results) = n
                  /\ \A i \in 1..n :
                        /\ loc[w].results[i].name = loc[w].enabled[i]
                        /\ log'[k + i].action \in {kind, kind \o "_failed"}
                        /\ log'[k + i].details = loc[w].results[i].msg
      ]_vars

(* C19.  After stop() has returned success and as long as start() has not  *)
(* been called again, no check cycle takes the lock and starts writing the  *)
(* status, except a cycle that was already executing when stop() was        *)
(* called.                                                                  *)
LastLifecycle ==
    LET l == SelectSeq(log, LAMBDA e : e.action \in {"started", "stopped"})
    IN  IF l = <<>> THEN "none" ELSE l[Len(l)].action

StoppedForGood ==
    /\ scheduler = "none"
    /\ ~status.running
    /\ LastLifecycle = "stopped"
    /\ status.error # "arm error"
    /\ \A c \in Callers : loc[c].op \notin Lifecycle

C19_StopPreventsFires ==
    [][\A w \in Workers :
         (StoppedForGood /\ loc[w].late)
         => ~(pc[w] = "cycle_lock" /\ pc'[w] = "query")
      ]_vars

(* C20.  A start() that succeeds from the stopped state sets running,       *)
(* appends exactly one started entry, leaves the scheduler running with the *)
(* interval job and schedules the one-shot initial check; with fair         *)
(* scheduling the one-shot check then runs to its return, unless the        *)
(* scheduler is shut down first, and no interval fire is needed for it.     *)
StartSucceeds(t) ==
    pc[t] = "start_body" /\ pc'[t] # "start_body" /\ ret'.line = 180

ImmediateCheckDone == ret.op = "initial" /\ ret.who \in Workers

C20_StartSchedulesCheck ==
    /\ [][\A t \in Callers :
            StartSucceeds(t)
            => /\ scheduler # "running"
               /\ ~status.running
               /\ ret'.value = TRUE
               /\ status'.running
               /\ scheduler' = "running"
               /\ initialPending'
               /\ log' = Append(log, StartedEntry(now))
               /\ status'.history = LastN(Append(status.history, StartedEntry(now)),
                                          MAX_HISTORY)
         ]_vars
    /\ (initialPending ~> (ImmediateCheckDone \/ scheduler # "running"))

\* The immediate check of a monitor started from the stopped state has run
\* a pause edge to its end, with no interval fire before it
C20_Witness ==
    /\ ImmediateCheckDone
    /\ ret.line = 150
    /\ lastCycle = "pause_edge"
    /\ status.running
    /\ status.history[1].action = "started"
    /\ ops = 2

(* C22.  As long as neither force_pause() nor force_unpause() has been      *)
(* called, containers_paused equals prev_sessions_active whenever no check  *)
(* cycle is inside its locked section.                                      *)
NoForceSoFar ==
    /\ \A i \in 1..Len(log) : log[i].action \notin ForceOps
    /\ \A c \in Callers : loc[c].op \notin ForceOps

CycleUnderWay == \E w \in Workers : pc[w] \in {"query", "batch", "record"}

C22_PausedFollowsPrev ==
    (NoForceSoFar /\ ~CycleUnderWay)
    => status.containers_paused = prev_sessions_active

\* After a pause edge every workload was disabled, and a cycle then found
\* the sessions gone: nothing was unpaused and both values are still true
C22_Witness ==
    /\ NoForceSoFar
    /\ ~CycleUnderWay
    /\ lastCycle = "empty"
    /\ ret.line = 112
    /\ ~status.sessions_active
    /\ status.containers_paused
    /\ prev_sessions_active

(* C23.  The unpause batch of a true -> false edge is made of the workloads *)
(* enabled in the configuration when the cycle reads it, whatever was       *)
(* paused at the false -> true edge; a workload disabled in between gets no *)
(* unpause call, and the cycle still sets containers_paused to false.       *)
C23_UnpauseTargets ==
    [][\A w \in Workers :
         /\ (QueryStep(w) /\ pc'[w] = "batch" /\ loc'[w].kind = "unpause")
            => /\ loc'[w].todo = get_enabled_containers
               /\ loc'[w].enabled = get_enabled_containers
         /\ (pc[w] = "batch" /\ loc[w].op \in CycleOps /\ loc[w].kind = "unpause"
               /\ loc'[w].results # loc[w].results)
            => /\ Len(loc'[w].results) = Len(loc[w].results) + 1
               /\ \E i \in 1..Len(loc[w].enabled) :
                     loc'[w].results[Len(loc'[w].results)].name = loc[w].enabled[i]
         /\ EdgeCycleEnds(w, "unpause")
            => /\ ResultNames(loc[w].results) = loc[w].enabled
               /\ ~status'.containers_paused
      ]_vars

(* C24.  No step of force_pause() or force_unpause() writes                 *)
(* prev_sessions_active or sessions_active; so after a force_unpause() a    *)
(* cycle that finds sessions active with prev_sessions_active true starts   *)
(* no pause batch and leaves containers_paused false, and after a           *)
(* force_pause() a cycle that finds no sessions with prev_sessions_active   *)
(* false starts no unpause batch and leaves containers_paused true.         *)
C24_ForceKeepsEdgeMemory ==
    [][/\ \A t \in Callers :
            (pc'[t] # pc[t] /\ (loc[t].op \in ForceOps \/ loc'[t].op \in ForceOps))
            => /\ prev_sessions_active' = prev_sessions_active
               /\ status'.sessions_active = status.sessions_active
       /\ \A w \in Workers :
            /\ (QueryStep(w) /\ SawActive /\ prev_sessions_active
                  /\ status.last_action = "Force unpaused containers")
               => /\ pc'[w] = "idle"
                  /\ ~status'.containers_paused
                  /\ status'.last_action = status.last_action
                  /\ log' = log
                  /\ prev_sessions_active'
            /\ (QueryStep(w) /\ SawIdle /\ ~prev_sessions_active
                  /\ status.last_action = "Force paused containers")
               => /\ pc'[w] = "idle"
                  /\ status'.containers_paused
                  /\ status'.last_action = status.last_action
                  /\ log' = log
                  /\ ~prev_sessions_active'
      ]_vars

\* Paused by the automatic cycle, unpaused by hand, and a later cycle found
\* the sessions still active and left the workloads running
C24_Witness ==
    /\ lastCycle = "steady"
    /\ ret.line = 150
    /\ status.last_action = "Force unpaused containers"
    /\ status.sessions_active
    /\ prev_sessions_active
    /\ ~status.containers_paused
    /\ \E i \in 1..Len(log) : log[i].action = "sessions_started"

(* C25.  Whenever no start(), stop() or restart() is under way,             *)
(* status.running is true exactly when a scheduler object exists and is     *)
(* running; a timer is armed only by a start() that found none running, so  *)
(* there is never more than one, and never more than one interval job in    *)
(* flight.                                                                  *)
C25_RunningIffArmed ==
    /\ [](((\A c \in Callers : loc[c].op \notin Lifecycle)
            => (status.running <=> scheduler = "running"))
          /\ Cardinality({w \in Workers : loc[w].op = "interval"}) <= 1)
    /\ [][/\ (Len(log') > Len(log) /\ log'[Len(log')].action = "started")
             => (scheduler # "running" /\ scheduler' = "running")
          /\ \A t \in Callers :
               (pc[t] = "start_body" /\ pc'[t] # "start_body"
                  /\ scheduler = "running")
               => /\ scheduler' = "running"
                  /\ initialPending' = initialPending
                  /\ log' = log
         ]_vars

\* An arming failure left a scheduler object behind and a stop() then failed
\* on it: running is false and no timer is armed
C25_Witness ==
    /\ ret.op = "stop"
    /\ ret.line = 202
    /\ scheduler = "stopped"
    /\ ~status.running
    /\ status.error = "Scheduler is not running"
    /\ \A c \in Callers : loc[c].op \notin Lifecycle

(* C26.  When the batch of an edge cycle raises, the cycle ends with the    *)
(* lock released and with containers_paused, last_action and                *)
(* prev_sessions_active as they were before the cycle, having appended only *)
(* its sessions_started / sessions_ended entry; the next cycle whose query  *)
(* succeeds with the same answer, with a workload enabled, appends that     *)
(* entry once more and starts the whole batch again.                        *)
BatchRaises(w) ==
    /\ pc[w] = "batch"
    /\ loc[w].op \in CycleOps
    /\ pc'[w] = "idle"

C26_RaiseLeavesEdgePending ==
    [][\A w \in Workers :
         /\ (QueryStep(w) /\ pc'[w] = "batch")
            => /\ status'.containers_paused = status.containers_paused
               /\ status'.last_action = status.last_action
               /\ prev_sessions_active' = prev_sessions_active
         /\ BatchRaises(w)
            => /\ lock' = NoThread
               /\ status' = status
               /\ prev_sessions_active' = prev_sessions_active
               /\ prev_sessions_active # loc[w].has
               /\ log' = log
               /\ log[Len(log)].action =
                     (IF loc[w].kind = "pause" THEN "sessions_started"
                      ELSE "sessions_ended")
               /\ lastCycle' = "raised"
         /\ (QueryStep(w) /\ lastCycle = "raised" /\ status'.error = "None"
               /\ status'.sessions_active = status.sessions_active
               /\ get_enabled_containers # <<>>)
            => /\ pc'[w] = "batch"
               /\ loc'[w].todo = get_enabled_containers
               /\ loc'[w].results = <<>>
               /\ Len(log') = Len(log) + 1
               /\ log'[Len(log')].action =
                     (IF status'.sessions_active THEN "sessions_started"
                      ELSE "sessions_ended")
      ]_vars

\* A pause batch raised, and the next cycle found the sessions still active
\* and announced the edge a second time
C26_Witness ==
    \E w \in Workers :
      /\ pc[w] = "batch"
      /\ loc[w].kind = "pause"
      /\ lastCycle = "raised"
      /\ ~prev_sessions_active
      /\ ~status.containers_paused
      /\ Len(SelectSeq(log, LAMBDA e : e.action = "sessions_started")) = 2
      /\ \A i \in 1..Len(log) : log[i].action \notin {"pause", "pause_failed"}

(* C21.  A cycle that ends in a session-source error leaves the scheduler   *)
(* and prev_sessions_active as they were; while the monitor stays running   *)
(* and enabled another cycle then reaches the session query (as long as the *)
(* operation budget admits a fire); every cycle clears status.error before  *)
(* it queries, and a query that succeeds after a failed cycle compares its  *)
(* answer with the prev_sessions_active the failed cycle left untouched.    *)
BudgetSpent == ops + Reserved >= MaxOps

AfterErrorCycle ==
    /\ lastCycle = "error"
    /\ scheduler = "running"
    /\ \A w \in Workers : pc[w] = "idle"

C21_ErrorKeepsTimer ==
    /\ [][\A w \in Workers :
            /\ (QueryStep(w) /\ status'.error # "None")
               => /\ scheduler' = scheduler
                  /\ initialPending' = initialPending
                  /\ prev_sessions_active' = prev_sessions_active
                  /\ pc'[w] = "idle"
                  /\ lock' = NoThread
            /\ (pc[w] = "cycle_lock" /\ pc'[w] = "query")
               => status'.error = "None"
            /\ (QueryStep(w) /\ lastCycle = "error" /\ status'.error = "None"
                  /\ get_enabled_containers # <<>>)
               => /\ (pc'[w] = "batch")
                        <=> (status'.sessions_active # prev_sessions_active)
                  /\ pc'[w] = "batch"
                        => loc'[w].kind = (IF status'.sessions_active THEN "pause"
                                           ELSE "unpause")
                  /\ pc'[w] = "idle"
                        => prev_sessions_active' = status'.sessions_active
         ]_vars
    /\ (AfterErrorCycle
          ~> ((\E w \in Workers : pc[w] = "query")
                \/ scheduler # "running" \/ ~cfgEnabled \/ BudgetSpent))

\* After a pause edge and a failed cycle, the next cycle's query succeeded
\* with no sessions and the cycle took the unpause edge
C21_Witness ==
    \E w \in Workers :
      /\ pc[w] = "batch"
      /\ loc[w].kind = "unpause"
      /\ lastCycle = "error"
      /\ status.error = "None"
      /\ prev_sessions_active
      /\ \E i \in 1..Len(log) : log[i].action = "error"

(* C27.  The lock is taken only when it is free and is held only by a       *)
(* thread inside a locked section, so it is released on every exit; with    *)
(* fair scheduling every operation that has begun (check cycle, start,      *)
(* stop, restart, force_pause, force_unpause, status read) comes to its     *)
(* end.                                                                     *)
LockReleasedOnExit == \A t \in Threads : lock = t => InCS(t)

TakenWhenFree == (lock' # lock /\ lock' # NoThread) => lock = NoThread

C27_NoDeadlock ==
    /\ []LockReleasedOnExit
    /\ [][TakenWhenFree]_vars
    /\ \A t \in Threads : (pc[t] # "idle") ~> (pc[t] = "idle")

\* restart() has released the lock after its stop() and waits for it again
\* while a check cycle that had been waiting holds it
C27_Witness ==
    \E w \in Workers, t \in Callers :
      /\ pc[t] = "start_lock"
      /\ lock = w
      /\ pc[w] \in {"query", "batch", "record"}

====
